---- MODULE Spec2Model ----
(***************************************************************************)
(* Model of the bill acceptor driver of src/main.py: the open retries of   *)
(* initialize_bill_acceptor, the poll loop of main, one poll cycle         *)
(* (check_status: send_command, receive_response, process_response,        *)
(* handle_error_response) and the interrupt / finally path of main.        *)
(*                                                                         *)
(* Bytes are integers 0..255, a bytes object is a sequence of them.        *)
(***************************************************************************)
EXTENDS Integers, Sequences, FiniteSets, TLC

VARIABLES
    pc,            \* the position of the single thread of control
    harness,       \* "main": main() runs; "observed": main() runs and the
                   \* cycles are logged; "call": a function is called directly
    attempt,       \* initialize_bill_acceptor: the loop variable of range(3)
    backoffs,      \* initialize_bill_acceptor: time.sleep(2) calls made so far
    is_open,       \* ser.is_open of the serial port object
    response,      \* check_status: what receive_response returned
    frame,         \* process_response: its local `response` (after stripping)
    io,            \* transport operations of the current cycle, in order
    outcome,       \* the branch process_response took (its diagnostic print)
    bill_type,     \* process_response: response[2] of an escrow frame
    value,         \* process_response: get_value_from_bill_type(bill_type)
    error_message, \* handle_error_response: error_codes.get(response[:1], ..)
    exit,          \* how the process left main(), "running" before that
    log            \* harness "observed": one record per finished cycle

vars == << pc, harness, attempt, backoffs, is_open, response, frame, io,
           outcome, bill_type, value, error_message, exit, log >>

-----------------------------------------------------------------------------
(* Bounds of the model *)

\* longest byte string the device answers with, over the alphabet Alphabet
MaxLen == 3
\* number of poll cycles logged when the harness is "observed"
MaxCycles == 4

-----------------------------------------------------------------------------
(* Protocol constants *)

POLL == 12          \* b'\x0C'
ACKNOWLEDGE == 2    \* b'\x02'
RESET == 48         \* b'\x30'
ENABLE == 62        \* b'\x3E'
IDLE == 0           \* b'\x00'
ESCROW == 129       \* b'\x81'
POWER_UP == << 128, 143 >>   \* b'\x80\x8F'

\* range(3) of initialize_bill_acceptor
RetryLimit == 3

Byte == 0 .. 255

\* Python's None for a bytes value, and for an int value
None == << -1 >>
NoByte == -1

-----------------------------------------------------------------------------
(* What the device may put in the input buffer between two polls *)

SeqsUpTo(S, n) == UNION { [1 .. k -> S] : k \in 0 .. n }

\* idle marker, two routed error codes, one error code that is not routed,
\* the power-up bytes and the escrow signal
Alphabet == { 0, 32, 33, 35, 128, 129, 143 }

\* every byte string over Alphabet up to MaxLen, every single byte, every
\* single byte behind one idle byte, an escrow frame for every bill type,
\* and the power-up and escrow frames behind one and two idle bytes
Responses ==
    SeqsUpTo(Alphabet, MaxLen)
        \cup { << b >> : b \in Byte }
        \cup { << IDLE, b >> : b \in Byte }
        \cup { << ESCROW, 5, b >> : b \in Byte }
        \cup { << IDLE, IDLE, 128, 143 >>, << IDLE, ESCROW, 5, 66 >>,
               << IDLE, IDLE, ESCROW, 5, 66 >>, << 128, 143, 0, 0 >> }

\* the frames the device answers with when the cycles are logged
ObservedFrames ==
    { << 0 >>, << 128, 143 >>, << 129, 5, 66 >>, << 32 >>, << 33 >>,
      << 129 >>, << 35 >>, << 0, 128, 143 >> }

DeviceFrames == IF harness = "observed" THEN ObservedFrames ELSE Responses

-----------------------------------------------------------------------------
(* Python's bytes operations, as the code uses them *)

\* b.startswith(bytes([x]))
startswith(b, x) == Len(b) >= 1 /\ b[1] = x

\* b[:1]: the first byte as a bytes object, b'' when b is empty
slice1(b) == SubSeq(b, 1, IF Len(b) >= 1 THEN 1 ELSE 0)

\* b[1:]
slice_from1(b) == SubSeq(b, 2, Len(b))

\* one transport operation of a cycle; ok is FALSE when it raised
WriteOp(c, ok) == [ op |-> "write", cmd |-> c, ok |-> ok ]
ReadOp(ok) == [ op |-> "read", cmd |-> NoByte, ok |-> ok ]

-----------------------------------------------------------------------------
(* The two lookup tables *)

\* mutant: an entry for 0x26 as well
error_codes_with_26 ==
    (<< 32 >> :> "Motor Failure") @@ (<< 33 >> :> "Checksum Error") @@
    (<< 34 >> :> "Bill Jam") @@ (<< 35 >> :> "Bill Removed") @@
    (<< 36 >> :> "Stacker Open") @@ (<< 37 >> :> "Sensor Problem") @@
    (<< 38 >> :> "Bill Fish") @@
    (<< 39 >> :> "Bill Fish") @@ (<< 40 >> :> "Stacker Problem") @@
    (<< 41 >> :> "Bill Reject") @@ (<< 42 >> :> "Invalid Command")

error_codes ==
    (<< 32 >> :> "Motor Failure") @@ (<< 33 >> :> "Checksum Error") @@
    (<< 34 >> :> "Bill Jam") @@ (<< 35 >> :> "Bill Removed") @@
    (<< 36 >> :> "Stacker Open") @@ (<< 37 >> :> "Sensor Problem") @@
    (<< 39 >> :> "Bill Fish") @@ (<< 40 >> :> "Stacker Problem") @@
    (<< 41 >> :> "Bill Reject") @@ (<< 42 >> :> "Invalid Command")

\* error_codes.get(key, "Unknown Error")
error_codes_get(key) ==
    IF key \in DOMAIN error_codes THEN error_codes[key] ELSE "Unknown Error"

\* mutant: a reset for Checksum Error too
reset_codes_with_checksum == { << 32 >>, << 33 >>, << 34 >>, << 40 >> }

\* the codes handle_error_response resets for
reset_codes == { << 32 >>, << 34 >>, << 40 >> }

\* mutant: Motor Failure left out of the routed codes
routed_codes_without_motor == { << 33 >>, << 34 >>, << 40 >> }

\* mutant: every code of the error table routed
routed_codes_whole_table ==
    { << c >> : c \in { 32, 33, 34, 35, 36, 37, 39, 40, 41, 42 } }

\* the first bytes process_response routes to handle_error_response
routed_codes == { << 32 >>, << 33 >>, << 34 >>, << 40 >> }

\* mutant: the table one code too high
value_map_shifted ==
    (65 :> "10 nghìn") @@ (66 :> "20 nghìn") @@ (67 :> "50 nghìn") @@
    (68 :> "100 nghìn") @@ (69 :> "200 nghìn") @@ (70 :> "500 nghìn")

value_map ==
    (64 :> "10 nghìn") @@ (65 :> "20 nghìn") @@ (66 :> "50 nghìn") @@
    (67 :> "100 nghìn") @@ (68 :> "200 nghìn") @@ (69 :> "500 nghìn")

get_value_from_bill_type(bt) ==
    IF bt \in DOMAIN value_map THEN value_map[bt] ELSE "Unknown"

-----------------------------------------------------------------------------
(* send_command: the write is attempted; a SerialException is caught and   *)
(* printed, so the caller goes on either way.                              *)

send_command(trace, c, ok) == Append(trace, WriteOp(c, ok))

-----------------------------------------------------------------------------
(* Where control goes when a function called from check_status, or called  *)
(* directly, returns or raises.                                            *)

\* process_response returned: check_status returns, main sleeps
ReturnPc == IF harness = "call" THEN "returned" ELSE "sleep"

\* mutant: check_status without its handler, the exception reaches main,
\* whose try has a finally clause and no clause for it
RaisePc_unhandled == IF harness = "call" THEN "raised" ELSE "finally"

\* an Exception left process_response: check_status has the only handler
RaisePc == IF harness = "call" THEN "raised" ELSE "check_status_except"

\* positions inside the try block of main
LoopPcs ==
    { "check_status", "receive_response", "process_response",
      "handle_error_response", "handle_error_enable",
      "check_status_except", "sleep" }

\* positions of main before its try block
StartupPcs == { "open", "backoff", "give_up", "opened" }

-----------------------------------------------------------------------------
(* initialize_bill_acceptor *)

\* one pass of the for loop: serial.Serial(...) returns or raises
initialize_bill_acceptor ==
    /\ pc = "open"
    /\ \E raised \in BOOLEAN :
          IF raised
          THEN /\ pc' = "backoff"
               /\ UNCHANGED is_open
          ELSE /\ pc' = "opened"
               /\ is_open' = TRUE
    /\ UNCHANGED << harness, attempt, backoffs, response, frame, io, outcome,
                    bill_type, value, error_message, exit, log >>

\* mutant: one pass too many
initialize_backoff_off_by_one ==
    /\ pc = "backoff"
    /\ backoffs' = backoffs + 1
    /\ attempt' = attempt + 1
    /\ pc' = IF attempt + 1 <= RetryLimit THEN "open" ELSE "give_up"
    /\ UNCHANGED << harness, is_open, response, frame, io, outcome,
                    bill_type, value, error_message, exit, log >>

\* the except clause: time.sleep(2), then the next pass or the end of the loop
initialize_backoff ==
    /\ pc = "backoff"
    /\ backoffs' = backoffs + 1
    /\ attempt' = attempt + 1
    /\ pc' = IF attempt + 1 < RetryLimit THEN "open" ELSE "give_up"
    /\ UNCHANGED << harness, is_open, response, frame, io, outcome,
                    bill_type, value, error_message, exit, log >>

\* "Failed to initialize ..."; return None; main: if not ser: return
initialize_give_up ==
    /\ pc = "give_up"
    /\ pc' = "exited"
    /\ exit' = "return_no_serial"
    /\ UNCHANGED << harness, attempt, backoffs, is_open, response, frame, io,
                    outcome, bill_type, value, error_message, log >>

\* return ser; main: ser is truthy, the try block and the loop are entered
main_enter_loop ==
    /\ pc = "opened"
    /\ pc' = "check_status"
    /\ UNCHANGED << harness, attempt, backoffs, is_open, response, frame, io,
                    outcome, bill_type, value, error_message, exit, log >>

-----------------------------------------------------------------------------
(* check_status *)

\* a new cycle: send_command(ser, b'\x0C')
check_status ==
    /\ pc = "check_status"
    /\ harness = "observed" => Len(log) < MaxCycles
    /\ \E ok \in BOOLEAN : io' = send_command(<< >>, POLL, ok)
    /\ response' = None
    /\ frame' = None
    /\ outcome' = "none"
    /\ bill_type' = NoByte
    /\ value' = ""
    /\ error_message' = ""
    /\ pc' = "receive_response"
    /\ UNCHANGED << harness, attempt, backoffs, is_open, exit, log >>

\* mutant: Poll is written again when nothing is waiting
receive_response_polls_again ==
    /\ pc = "receive_response"
    /\ \E result \in { "nothing", "SerialException", "OSError", "bytes" } :
          CASE result = "nothing" ->
                  /\ \E ok \in BOOLEAN :
                        io' = send_command(Append(io, ReadOp(TRUE)), POLL, ok)
                  /\ response' = None
                  /\ pc' = "sleep"
            [] result = "SerialException" ->
                  /\ io' = Append(io, ReadOp(FALSE))
                  /\ response' = None
                  /\ pc' = "sleep"
            [] result = "OSError" ->
                  /\ io' = Append(io, ReadOp(FALSE))
                  /\ response' = None
                  /\ pc' = "check_status_except"
            [] result = "bytes" ->
                  \E r \in DeviceFrames :
                     /\ io' = Append(io, ReadOp(TRUE))
                     /\ response' = r
                     /\ pc' = IF r # << >> THEN "process_response" ELSE "sleep"
    /\ UNCHANGED << harness, attempt, backoffs, is_open, frame, outcome,
                    bill_type, value, error_message, exit, log >>

\* response = receive_response(ser); if response: ...
\*   nothing waiting: None.  ser.in_waiting or ser.read raises
\*   SerialException: caught in receive_response, None.  ser.in_waiting
\*   raises another Exception (OSError): the handler of check_status.
\*   Otherwise the bytes read; an empty bytes object is falsy.
receive_response ==
    /\ pc = "receive_response"
    /\ \E result \in { "nothing", "SerialException", "OSError", "bytes" } :
          CASE result = "nothing" ->
                  /\ io' = Append(io, ReadOp(TRUE))
                  /\ response' = None
                  /\ pc' = "sleep"
            [] result = "SerialException" ->
                  /\ io' = Append(io, ReadOp(FALSE))
                  /\ response' = None
                  /\ pc' = "sleep"
            [] result = "OSError" ->
                  /\ io' = Append(io, ReadOp(FALSE))
                  /\ response' = None
                  /\ pc' = "check_status_except"
            [] result = "bytes" ->
                  \E r \in DeviceFrames :
                     /\ io' = Append(io, ReadOp(TRUE))
                     /\ response' = r
                     /\ pc' = IF r # << >> THEN "process_response" ELSE "sleep"
    /\ UNCHANGED << harness, attempt, backoffs, is_open, frame, outcome,
                    bill_type, value, error_message, exit, log >>

\* mutant: the handler raises again, the exception ends the process
check_status_except_reraise ==
    /\ pc = "check_status_except"
    /\ pc' = "exited"
    /\ exit' = "uncaught_exception"
    /\ is_open' = FALSE
    /\ UNCHANGED << harness, attempt, backoffs, response, frame, io,
                    outcome, bill_type, value, error_message, log >>

\* except Exception as e: print(...)
check_status_except ==
    /\ pc = "check_status_except"
    /\ pc' = "sleep"
    /\ UNCHANGED << harness, attempt, backoffs, is_open, response, frame, io,
                    outcome, bill_type, value, error_message, exit, log >>

-----------------------------------------------------------------------------
(* process_response and handle_error_response *)

\* mutant: every leading 00 removed (lstrip)
RECURSIVE strip_every_leading_idle(_)
strip_every_leading_idle(r) ==
    IF startswith(r, IDLE) THEN strip_every_leading_idle(slice_from1(r)) ELSE r

\* the local `response` once the leading 00 is removed
strip_leading_idle(r) == IF startswith(r, IDLE) THEN slice_from1(r) ELSE r

\* mutant: a prefix match
is_power_up_prefix(s) == Len(s) >= 2 /\ SubSeq(s, 1, 2) = POWER_UP

\* response == b'\x80\x8F'
is_power_up(s) == s = POWER_UP

\* mutant: a bill of unknown denomination is not accepted
process_response_escrow_known_only(s) ==
    IF Len(s) >= 3
    THEN /\ outcome' = "Escrow"
         /\ bill_type' = s[3]
         /\ value' = get_value_from_bill_type(s[3])
         /\ IF get_value_from_bill_type(s[3]) # "Unknown"
            THEN \E ok \in BOOLEAN : io' = send_command(io, ACKNOWLEDGE, ok)
            ELSE io' = io
         /\ pc' = ReturnPc
    ELSE /\ outcome' = "IndexError"
         /\ pc' = RaisePc
         /\ UNCHANGED << io, bill_type, value >>

\* the escrow branch of process_response, lines 86-90, for the stripped
\* response s
process_response_escrow(s) ==
    IF Len(s) >= 3
    THEN \* bill_type = response[2]
         /\ outcome' = "Escrow"
         /\ bill_type' = s[3]
         /\ value' = get_value_from_bill_type(s[3])
         /\ \E ok \in BOOLEAN : io' = send_command(io, ACKNOWLEDGE, ok)
         /\ pc' = ReturnPc
    ELSE \* response[2] raises IndexError
         /\ outcome' = "IndexError"
         /\ pc' = RaisePc
         /\ UNCHANGED << io, bill_type, value >>

\* process_response(ser, response) up to its return, its raise, or its call
\* of handle_error_response
process_response ==
    /\ pc = "process_response"
    /\ IF response = << IDLE >>
       THEN \* "Received idle status (00), no action needed."
            /\ outcome' = "Idle"
            /\ pc' = ReturnPc
            /\ UNCHANGED << frame, io, bill_type, value >>
       ELSE LET s == strip_leading_idle(response) IN
            /\ frame' = s
            /\ IF s # << >>
               THEN IF is_power_up(s)
                    THEN /\ outcome' = "PowerUpRequest"
                         /\ \E ok \in BOOLEAN :
                               io' = send_command(io, ACKNOWLEDGE, ok)
                         /\ pc' = ReturnPc
                         /\ UNCHANGED << bill_type, value >>
                    ELSE IF startswith(s, ESCROW)
                    THEN process_response_escrow(s)
                    ELSE IF slice1(s) \in routed_codes
                    THEN /\ outcome' = "ErrorEvent"
                         /\ pc' = "handle_error_response"
                         /\ UNCHANGED << io, bill_type, value >>
                    ELSE \* "Unknown response: ..."
                         /\ outcome' = "Unknown"
                         /\ pc' = ReturnPc
                         /\ UNCHANGED << io, bill_type, value >>
               ELSE \* "Received empty or invalid response."
                    /\ outcome' = "Empty"
                    /\ pc' = ReturnPc
                    /\ UNCHANGED << io, bill_type, value >>
    /\ UNCHANGED << harness, attempt, backoffs, is_open, response,
                    error_message, exit, log >>

\* mutant: a flag kept across cycles, Reset only for the first error of a run
handle_error_response_resets_once ==
    /\ pc = "handle_error_response"
    /\ error_message' = error_codes_get(slice1(frame))
    /\ IF /\ slice1(frame) \in reset_codes
          /\ \A i \in 1 .. Len(log) : 48 \notin { log[i].cmds[k] : k \in 1 .. Len(log[i].cmds) }
       THEN \E ok \in BOOLEAN : io' = send_command(io, RESET, ok)
       ELSE io' = io
    /\ pc' = "handle_error_enable"
    /\ UNCHANGED << harness, attempt, backoffs, is_open, response, frame,
                    outcome, bill_type, value, exit, log >>

\* handle_error_response(ser, response), lines 45-64: the lookup, and the
\* Reset command for the codes that need one
handle_error_response ==
    /\ pc = "handle_error_response"
    /\ error_message' = error_codes_get(slice1(frame))
    /\ IF slice1(frame) \in reset_codes
       THEN \E ok \in BOOLEAN : io' = send_command(io, RESET, ok)
       ELSE io' = io
    /\ pc' = "handle_error_enable"
    /\ UNCHANGED << harness, attempt, backoffs, is_open, response, frame,
                    outcome, bill_type, value, exit, log >>

\* mutant: the wrong command byte after the recovery
handle_error_enable_acknowledges ==
    /\ pc = "handle_error_enable"
    /\ \E ok \in BOOLEAN : io' = send_command(io, ACKNOWLEDGE, ok)
    /\ pc' = ReturnPc
    /\ UNCHANGED << harness, attempt, backoffs, is_open, response, frame,
                    outcome, bill_type, value, error_message, exit, log >>

\* handle_error_response, line 67: the Enable command, then the return
handle_error_enable ==
    /\ pc = "handle_error_enable"
    /\ \E ok \in BOOLEAN : io' = send_command(io, ENABLE, ok)
    /\ pc' = ReturnPc
    /\ UNCHANGED << harness, attempt, backoffs, is_open, response, frame,
                    outcome, bill_type, value, error_message, exit, log >>

-----------------------------------------------------------------------------
(* main: the delay, the interrupt and the finally clause *)

\* the commands among the transport operations of a cycle
Commands(trace) ==
    LET W == SelectSeq(trace, LAMBDA e : e.op = "write")
    IN  [ i \in 1 .. Len(W) |-> W[i].cmd ]

\* time.sleep(0.2), then the next pass of while True
sleep ==
    /\ pc = "sleep"
    /\ pc' = "check_status"
    /\ log' = IF harness = "observed"
              THEN Append(log, [ response |-> response, cmds |-> Commands(io) ])
              ELSE log
    /\ UNCHANGED << harness, attempt, backoffs, is_open, response, frame, io,
                    outcome, bill_type, value, error_message, exit >>

\* KeyboardInterrupt inside the try block: no handler below main catches it
\* (check_status catches Exception only); except KeyboardInterrupt prints
keyboard_interrupt ==
    /\ pc \in LoopPcs
    /\ pc' = "finally"
    /\ UNCHANGED << harness, attempt, backoffs, is_open, response, frame, io,
                    outcome, bill_type, value, error_message, exit, log >>

\* KeyboardInterrupt before the try block: nothing catches it
keyboard_interrupt_startup ==
    /\ pc \in StartupPcs
    /\ pc' = "exited"
    /\ exit' = "uncaught_KeyboardInterrupt"
    /\ UNCHANGED << harness, attempt, backoffs, is_open, response, frame, io,
                    outcome, bill_type, value, error_message, log >>

\* mutant: the port is left open
main_finally_no_close ==
    /\ pc = "finally"
    /\ pc' = "exited"
    /\ exit' = "return_after_finally"
    /\ UNCHANGED << harness, attempt, backoffs, is_open, response, frame, io,
                    outcome, bill_type, value, error_message, log >>

\* finally: if ser and ser.is_open: ser.close(); main returns
main_finally ==
    /\ pc = "finally"
    /\ is_open' = IF is_open THEN FALSE ELSE is_open
    /\ pc' = "exited"
    /\ exit' = "return_after_finally"
    /\ UNCHANGED << harness, attempt, backoffs, response, frame, io, outcome,
                    bill_type, value, error_message, log >>

\* the status the process ends with: 0 when main returns, not 0 when the
\* interpreter ends on an uncaught exception
exit_status(e) ==
    IF e \in { "return_no_serial", "return_after_finally" } THEN 0 ELSE 1

-----------------------------------------------------------------------------
(* Specifications *)

InitLocals ==
    /\ attempt = 0
    /\ backoffs = 0
    /\ response = None
    /\ frame = None
    /\ io = << >>
    /\ outcome = "none"
    /\ bill_type = NoByte
    /\ value = ""
    /\ error_message = ""
    /\ exit = "running"
    /\ log = << >>

\* main() is started
Init ==
    /\ harness = "main"
    /\ pc = "open"
    /\ is_open = FALSE
    /\ InitLocals

Next ==
    \/ initialize_bill_acceptor
    \/ initialize_backoff
    \/ initialize_give_up
    \/ main_enter_loop
    \/ check_status
    \/ receive_response
    \/ check_status_except
    \/ process_response
    \/ handle_error_response
    \/ handle_error_enable
    \/ sleep
    \/ keyboard_interrupt
    \/ keyboard_interrupt_startup
    \/ main_finally

Spec == Init /\ [][Next]_vars

\* main() is started and its first MaxCycles cycles are logged
InitObserved ==
    /\ harness = "observed"
    /\ pc = "open"
    /\ is_open = FALSE
    /\ InitLocals

ObservedSpec == InitObserved /\ [][Next]_vars

\* process_response or handle_error_response is called directly, with an
\* open port and any bytes
InitCall ==
    /\ harness = "call"
    /\ is_open = TRUE
    /\ attempt = 0
    /\ backoffs = 0
    /\ io = << >>
    /\ outcome = "none"
    /\ bill_type = NoByte
    /\ value = ""
    /\ error_message = ""
    /\ exit = "running"
    /\ log = << >>
    /\ \E r \in Responses :
          \/ pc = "process_response" /\ response = r /\ frame = None
          \/ pc = "handle_error_response" /\ response = None /\ frame = r

NextCall ==
    \/ process_response
    \/ handle_error_response
    \/ handle_error_enable

CallSpec == InitCall /\ [][NextCall]_vars

\* the thread of control keeps running: every step of the program but the
\* interrupt, which is the environment's
ProgramStep ==
    \/ initialize_bill_acceptor
    \/ initialize_backoff
    \/ initialize_give_up
    \/ main_enter_loop
    \/ check_status
    \/ receive_response
    \/ check_status_except
    \/ process_response
    \/ handle_error_response
    \/ handle_error_enable
    \/ sleep
    \/ main_finally

LiveSpec == Init /\ [][Next]_vars /\ WF_vars(ProgramStep)

-----------------------------------------------------------------------------
(* What the specification expects, written from its own tables *)

\* the reactive commands for a non-empty frame that needs no stripping
ExpectedReactive(f) ==
    IF f = << 128, 143 >> THEN << 2 >>
    ELSE IF f[1] = 129 /\ Len(f) >= 3 THEN << 2 >>
    ELSE IF f[1] \in { 32, 34, 40 } THEN << 48, 62 >>
    ELSE IF f[1] = 33 THEN << 62 >>
    ELSE << >>

\* the reactive commands for what one read returned
ExpectedForResponse(r) ==
    IF r = None \/ r = << >> \/ r = << 0 >> THEN << >>
    ELSE ExpectedReactive(IF r[1] = 0 THEN Tail(r) ELSE r)

\* the first byte of a response once one leading idle byte is removed,
\* NoByte when there is none (no response, empty, or the idle response)
StrippedFirst(r) ==
    IF r = None \/ r = << >> \/ r = << 0 >> THEN NoByte
    ELSE IF r[1] = 0 THEN r[2] ELSE r[1]

\* an escrow frame too short to hold a bill type
MalformedEscrow(r) ==
    /\ StrippedFirst(r) = 129
    /\ Len(r) - (IF r[1] = 0 THEN 1 ELSE 0) < 3

\* the transport operations of a cycle without their success flags
Ops(trace) == [ i \in 1 .. Len(trace) |-> << trace[i].op, trace[i].cmd >> ]

-----------------------------------------------------------------------------
(* C1: every poll cycle emits Poll (0x0C) first and then the reactive     *)
(* commands fixed by that cycle's response: none for Idle, [0x02] for      *)
(* power-up and for a well-formed escrow frame, the recovery sequence for  *)
(* an error, none for anything else; the responses 00, 80 8F, 81 05 42, 20 *)
(* in four successive cycles give [], [0x02], [0x02], [0x30, 0x3E].        *)
C1_CycleCommands ==
    /\ \A i \in 1 .. Len(log) :
          log[i].cmds = << 12 >> \o ExpectedForResponse(log[i].response)
    /\ io # << >> => Ops(io)[1] = << "write", 12 >>
    /\ pc = "sleep" => Commands(io) = << 12 >> \o ExpectedForResponse(response)
    /\ \A k \in 1 .. Len(log) - 3 :
          ( /\ log[k].response = << 0 >>
            /\ log[k + 1].response = << 128, 143 >>
            /\ log[k + 2].response = << 129, 5, 66 >>
            /\ log[k + 3].response = << 32 >> )
          => /\ log[k].cmds = << 12 >>
             /\ log[k + 1].cmds = << 12, 2 >>
             /\ log[k + 2].cmds = << 12, 2 >>
             /\ log[k + 3].cmds = << 12, 48, 62 >>

C1_Witness ==
    /\ Len(log) = 4
    /\ log[1].response = << 0 >> /\ log[1].cmds = << 12 >>
    /\ log[2].response = << 128, 143 >> /\ log[2].cmds = << 12, 2 >>
    /\ log[3].response = << 129, 5, 66 >> /\ log[3].cmds = << 12, 2 >>
    /\ log[4].response = << 32 >> /\ log[4].cmds = << 12, 48, 62 >>

(* C2: handle_error_response performs exactly [write Reset, write Enable]  *)
(* when the code needs a reset (0x20, 0x22, 0x28) and exactly [write       *)
(* Enable] otherwise, with no read of the transport in between.            *)
C2_RecoverySequence ==
    LET needs_reset == frame # << >> /\ frame[1] \in { 32, 34, 40 } IN
    /\ (pc = "handle_error_enable")
          => Ops(io) = IF needs_reset THEN << << "write", 48 >> >> ELSE << >>
    /\ (pc = "returned" /\ error_message # "")
          => Ops(io) = IF needs_reset
                       THEN << << "write", 48 >>, << "write", 62 >> >>
                       ELSE << << "write", 62 >> >>

C2_Witness ==
    /\ pc = "returned"
    /\ frame = << 34 >>
    /\ error_message = "Bill Jam"
    /\ Ops(io) = << << "write", 48 >>, << "write", 62 >> >>

(* C3: process_response ends, for every byte sequence, in one of the five  *)
(* outcomes Idle, PowerUpRequest, Escrow, ErrorEvent, Unknown and never    *)
(* raises.                                                                 *)
C3_ClassificationTotal ==
    response # None =>
       /\ pc # "raised"
       /\ outcome # "IndexError"
       /\ pc = "returned" =>
             outcome \in { "Idle", "PowerUpRequest", "Escrow", "ErrorEvent",
                           "Unknown", "Empty" }

(* C4: a cycle whose response is an escrow frame shorter than 3 bytes      *)
(* emits no command after Poll, the exception stays inside check_status,   *)
(* and the loop goes on to the delay and to the next Poll.                 *)
C4_CycleInv ==
    (MalformedEscrow(response) /\ pc \notin { "receive_response", "process_response" })
       => /\ pc \in { "check_status_except", "sleep", "check_status",
                      "finally", "exited" }
          /\ Commands(io) = << 12 >>
          /\ exit \in { "running", "return_after_finally" }

C4_CycleStep ==
    /\ (MalformedEscrow(response) /\ pc = "process_response")
          => \/ pc' = "check_status_except" /\ outcome' = "IndexError"
             \/ pc' = "finally" /\ outcome' = outcome
    /\ (pc = "check_status_except" /\ pc' # "finally") => pc' = "sleep"
    /\ (pc = "sleep" /\ pc' # "finally")
          => pc' = "check_status"
    /\ (pc = "check_status" /\ pc' # "finally")
          => Ops(io') = << << "write", 12 >> >>

C4_MalformedEscrowAbsorbed == [] C4_CycleInv /\ [][C4_CycleStep]_vars

C4_Witness ==
    /\ pc = "sleep"
    /\ response = << 129, 0 >>
    /\ outcome = "IndexError"
    /\ Commands(io) = << 12 >>

(* C5: after a transport write or read has failed in a cycle, no further   *)
(* command is emitted in that cycle.                                       *)
C5_FailureEndsCycle ==
    \A i, j \in 1 .. Len(io) :
       (i < j /\ ~ io[i].ok) => io[j].op # "write"

(* C6: the single byte 00 is Idle with no command; one leading 00 before   *)
(* a frame that does not start with 00 changes nothing about the commands  *)
(* the frame triggers; only one leading 00 is removed, so a response that  *)
(* starts with 00 00 is Unknown with no command; an empty response is      *)
(* Unknown with no command.                                                *)
C6_IdleNormalization ==
    (response # None /\ pc \in { "returned", "raised" }) =>
       /\ response = << 0 >> => (outcome = "Idle" /\ io = << >>)
       /\ response = << >> => (outcome \in { "Unknown", "Empty" } /\ io = << >>)
       /\ (Len(response) >= 2 /\ response[1] = 0 /\ response[2] = 0)
             => (outcome = "Unknown" /\ io = << >>)
       /\ (Len(response) >= 1 /\ response[1] # 0)
             => Commands(io) = ExpectedReactive(response)
       /\ (Len(response) >= 2 /\ response[1] = 0 /\ response[2] # 0)
             => Commands(io) = ExpectedReactive(Tail(response))

C6_Witness ==
    /\ pc = "returned"
    /\ response = << 0, 128, 143 >>
    /\ outcome = "PowerUpRequest"
    /\ Commands(io) = << 2 >>

(* C7: error recovery is entered, and Reset or Enable emitted, only in a   *)
(* cycle whose response has a stripped first byte in {0x20, 0x21, 0x22,    *)
(* 0x28}; a first byte 0x23..0x27, 0x29 or 0x2A is Unknown: no table       *)
(* lookup, no Reset, no Enable.                                            *)
C7_OnlyRoutedCodesRecover ==
    /\ ( \/ pc \in { "handle_error_response", "handle_error_enable" }
         \/ outcome = "ErrorEvent"
         \/ error_message # ""
         \/ \E i \in 1 .. Len(io) : io[i].cmd \in { 48, 62 } )
          => StrippedFirst(response) \in { 32, 33, 34, 40 }
    /\ ( /\ StrippedFirst(response) \in { 35, 36, 37, 38, 39, 41, 42 }
         /\ pc = "sleep" )
          => /\ outcome = "Unknown"
             /\ error_message = ""
             /\ Commands(io) = << 12 >>

C7_Witness ==
    /\ pc = "sleep"
    /\ response = << 35 >>
    /\ outcome = "Unknown"
    /\ Commands(io) = << 12 >>

(* C8: the control loop is left only through the finally clause, which     *)
(* closes the open port before the process exits, wherever in the cycle    *)
(* the interrupt arrives; commands are written only while the port is      *)
(* open, so none follows the close.                                        *)
C8_ClosedInv ==
    /\ pc \in LoopPcs \cup { "finally" } => is_open
    /\ (pc = "exited" /\ exit = "return_after_finally") => ~ is_open

C8_ClosedStep ==
    /\ (pc \in LoopPcs /\ pc' \notin LoopPcs) => pc' = "finally"
    /\ pc = "finally" => (pc' = "exited" /\ ~ is_open')
    /\ (is_open /\ ~ is_open') => pc' = "exited"
    /\ io' # io => (is_open /\ is_open')

C8_ClosedOnEveryLoopExit == [] C8_ClosedInv /\ [][C8_ClosedStep]_vars

\* the interrupt arrived in the dispatch, between Reset and Enable
C8_Witness ==
    /\ pc = "exited"
    /\ exit = "return_after_finally"
    /\ ~ is_open
    /\ Commands(io) = << 12, 48 >>

(* C9: serial.Serial is called at most 3 times, each call after the first  *)
(* preceded by a backoff; the first call that succeeds ends the retries    *)
(* and leads to the poll loop; after 3 failed calls the failure is         *)
(* reported, the loop is never entered and no command is ever written.     *)
C9_RetryInv ==
    /\ attempt \in 0 .. 3
    /\ backoffs = attempt
    /\ pc \in { "open", "backoff", "opened" } \cup LoopPcs => attempt <= 2
    /\ attempt = 3
          => /\ pc \in { "give_up", "exited" }
             /\ ~ is_open
             /\ io = << >>
             /\ exit \in { "running", "return_no_serial",
                           "uncaught_KeyboardInterrupt" }
    /\ exit = "return_no_serial" => (attempt = 3 /\ io = << >>)
    /\ pc \in StartupPcs => io = << >>

C9_RetryStep ==
    /\ (pc = "open" /\ is_open')
          => (pc' = "opened" /\ attempt' = attempt /\ backoffs' = backoffs)
    /\ (pc = "opened" /\ pc' # "exited") => pc' = "check_status"
    /\ pc' = "open" => (pc = "backoff" /\ backoffs' = backoffs + 1)
    /\ pc' = "check_status" => pc \in { "opened", "sleep" }

C9_OpenRetries == [] C9_RetryInv /\ [][C9_RetryStep]_vars

C9_Witness ==
    /\ pc = "exited"
    /\ exit = "return_no_serial"
    /\ attempt = 3
    /\ backoffs = 3
    /\ io = << >>

(* C10: unless the interrupt arrives (or the port never opens), every      *)
(* started poll cycle reaches the inter-cycle delay, whatever the device    *)
(* and the transport do, and Poll is written again and again.              *)
C10_Stopped ==
    \/ pc = "finally"
    \/ pc = "exited" /\ exit \in { "return_no_serial", "return_after_finally",
                                   "uncaught_KeyboardInterrupt" }

C10_InCycle ==
    pc \in { "receive_response", "process_response", "handle_error_response",
             "handle_error_enable", "check_status_except" }

C10_LoopNeverStops ==
    /\ [](C10_InCycle => <>(pc = "sleep" \/ pc = "finally"))
    /\ ([]<>(pc = "receive_response" /\ Ops(io) = << << "write", 12 >> >>)
           \/ <> C10_Stopped)

\* a cycle in which the Poll write and the read both failed reached the delay
C10_Witness ==
    /\ pc = "sleep"
    /\ Len(io) = 2
    /\ ~ io[1].ok
    /\ ~ io[2].ok


(* C11: when the read of a cycle returns no bytes (nothing waiting, or an  *)
(* empty bytes object), the cycle ends there: process_response is not      *)
(* entered and Poll is the only command of the cycle.                      *)
C11_SilentCycle ==
    ( /\ Len(io) >= 2
      /\ io[2] = ReadOp(TRUE)
      /\ response \in { None, << >> } )
       => /\ pc \in { "sleep", "check_status", "finally", "exited" }
          /\ Ops(io) = << << "write", 12 >>, << "read", NoByte >> >>
          /\ outcome = "none"

C11_Witness ==
    /\ pc = "sleep"
    /\ response = None
    /\ io = << WriteOp(12, TRUE), ReadOp(TRUE) >>


(* C12: the commands of a cycle depend on nothing but what that cycle      *)
(* read: two finished cycles that read the same response, whatever cycles  *)
(* came before each of them and whichever writes failed, emitted the same  *)
(* commands; and no command occurs twice in one cycle.                     *)
C12_NoRepeat(cmds) ==
    \A a, b \in 1 .. Len(cmds) : cmds[a] = cmds[b] => a = b

C12_StatelessCycles ==
    /\ \A i, j \in 1 .. Len(log) :
          log[i].response = log[j].response => log[i].cmds = log[j].cmds
    /\ pc = "sleep" =>
          \A i \in 1 .. Len(log) :
             log[i].response = response => log[i].cmds = Commands(io)
    /\ \A i \in 1 .. Len(log) : C12_NoRepeat(log[i].cmds)
    /\ C12_NoRepeat(Commands(io))

\* the same error frame read in the first and in the fourth cycle, after
\* three different cycles
C12_Witness ==
    /\ Len(log) = 4
    /\ log[1].response = << 32 >>
    /\ log[2].response = << 128, 143 >>
    /\ log[3].response = << 33 >>
    /\ log[4].response = << 32 >>
    /\ log[1].cmds = << 12, 48, 62 >>
    /\ log[4].cmds = << 12, 48, 62 >>


(* C13: wherever the interrupt arrives (open retries and backoff, poll     *)
(* cycle, inter-cycle delay), the process exits with status 0.             *)
C13_CleanExitOnInterrupt ==
    pc = "exited" => exit_status(exit) = 0


(* C14: the error table lookup of handle_error_response is total: a        *)
(* specific description for 0x20..0x25 and 0x27..0x2A, "Unknown Error" for *)
(* every other byte (0x26 too) and for no byte at all; a Reset is sent     *)
(* exactly for 0x20, 0x22 and 0x28.                                        *)
C14_Looked ==
    /\ harness = "call"
    /\ pc \in { "handle_error_enable", "returned" }
    /\ error_message # ""

C14_ErrorTableTotal ==
    /\ pc = "handle_error_response" => ENABLED handle_error_response
    /\ C14_Looked =>
          LET c == IF frame = << >> THEN NoByte ELSE frame[1]
              sent_reset == \E i \in 1 .. Len(io) : io[i].cmd = 48
          IN  /\ c \in { 32, 33, 34, 35, 36, 37, 39, 40, 41, 42 }
                    => error_message \in
                          { "Motor Failure", "Checksum Error", "Bill Jam",
                            "Bill Removed", "Stacker Open", "Sensor Problem",
                            "Bill Fish", "Stacker Problem", "Bill Reject",
                            "Invalid Command" }
              /\ c \notin { 32, 33, 34, 35, 36, 37, 39, 40, 41, 42 }
                    => error_message = "Unknown Error"
              /\ sent_reset <=> c \in { 32, 34, 40 }

\* the lookup for 0x26, called directly
C14_Witness ==
    /\ harness = "call"
    /\ response = None
    /\ pc = "returned"
    /\ frame = << 38 >>
    /\ error_message = "Unknown Error"
    /\ Ops(io) = << << "write", 62 >> >>


(* C15: for an escrow frame of at least 3 bytes the bill type is the byte  *)
(* at index 2 of the frame without its leading idle byte, and the          *)
(* denomination lookup is total: 64..69 give the six labels (0x41 is       *)
(* "20 nghìn", 0x42 is "50 nghìn"), every other byte gives "Unknown".      *)
C15_Label(bt) ==
    CASE bt = 64 -> "10 nghìn"
      [] bt = 65 -> "20 nghìn"
      [] bt = 66 -> "50 nghìn"
      [] bt = 67 -> "100 nghìn"
      [] bt = 68 -> "200 nghìn"
      [] bt = 69 -> "500 nghìn"
      [] OTHER -> "Unknown"

C15_EscrowBillType ==
    ( /\ response # None
      /\ pc \in { "returned", "raised" }
      /\ StrippedFirst(response) = 129
      /\ ~ MalformedEscrow(response) )
       => /\ pc = "returned"
          /\ outcome = "Escrow"
          /\ bill_type = IF response[1] = 0 THEN response[4] ELSE response[3]
          /\ bill_type \in Byte
          /\ value = C15_Label(bill_type)

\* a bill type outside the table
C15_Witness ==
    /\ pc = "returned"
    /\ response = << 129, 5, 255 >>
    /\ bill_type = 255
    /\ value = "Unknown"


(* C16: power-up is an exact match: only the frame 80 8F (after the idle   *)
(* byte is removed) is PowerUpRequest and acknowledged; 80 8F with more    *)
(* bytes behind it, or 80 alone, is Unknown with no command.  The escrow   *)
(* branch and the error branch are taken on the first byte alone,          *)
(* whatever bytes follow.                                                  *)
C16_Stripped(r) == IF Len(r) >= 2 /\ r[1] = 0 THEN Tail(r) ELSE r

C16_PowerUpExact ==
    (response # None /\ pc \in { "returned", "raised" }) =>
       LET s == C16_Stripped(response) IN
       /\ outcome = "PowerUpRequest" <=> s = << 128, 143 >>
       /\ s = << 128, 143 >> => Commands(io) = << 2 >>
       /\ (s # << >> /\ s[1] = 128 /\ s # << 128, 143 >>)
             => (outcome = "Unknown" /\ io = << >>)
       /\ (s # << >> /\ s[1] = 129)
             => /\ outcome \in { "Escrow", "IndexError" }
                /\ Len(s) >= 3 => outcome = "Escrow"
       /\ (s # << >> /\ s[1] \in { 32, 33, 34, 40 }) => outcome = "ErrorEvent"

\* the power-up bytes with two more bytes behind them
C16_Witness ==
    /\ pc = "returned"
    /\ response = << 128, 143, 0, 0 >>
    /\ outcome = "Unknown"
    /\ io = << >>


(* C17: in the command trace of any sequence of poll cycles every Reset    *)
(* is directly followed by Enable; Reset and Enable occur only in a cycle  *)
(* whose response has a stripped first byte in {0x20, 0x21, 0x22, 0x28};   *)
(* Acknowledge occurs only in a cycle whose response is the power-up       *)
(* frame or an escrow frame, and never together with Reset or Enable.      *)
RECURSIVE C17_Flatten(_)
C17_Flatten(l) ==
    IF l = << >> THEN << >> ELSE Head(l).cmds \o C17_Flatten(Tail(l))

C17_Has(cmds, c) == \E k \in 1 .. Len(cmds) : cmds[k] = c

C17_AckFrame(r) ==
    /\ r \notin { None, << >>, << 0 >> }
    /\ LET s == IF r[1] = 0 THEN Tail(r) ELSE r
       IN  s = << 128, 143 >> \/ (s[1] = 129 /\ Len(s) >= 3)

C17_CycleOk(r, cmds) ==
    /\ (C17_Has(cmds, 48) \/ C17_Has(cmds, 62))
          => StrippedFirst(r) \in { 32, 33, 34, 40 }
    /\ C17_Has(cmds, 2)
          => (C17_AckFrame(r) /\ ~ C17_Has(cmds, 48) /\ ~ C17_Has(cmds, 62))

C17_TraceShape ==
    /\ LET T == C17_Flatten(log) IN
          \A k \in 1 .. Len(T) :
             T[k] = 48 => (k < Len(T) /\ T[k + 1] = 62)
    /\ LET T == Commands(io) IN
          /\ \A k \in 1 .. Len(T) - 1 : T[k] = 48 => T[k + 1] = 62
          /\ (T # << >> /\ T[Len(T)] = 48)
                => pc \in { "handle_error_enable", "finally", "exited" }
    /\ \A i \in 1 .. Len(log) : C17_CycleOk(log[i].response, log[i].cmds)
    /\ C17_CycleOk(response, Commands(io))

\* two recoveries with a reset, an acknowledged escrow between them
C17_Witness ==
    /\ Len(log) >= 3
    /\ C17_Flatten(SubSeq(log, 1, 3)) = << 12, 48, 62, 12, 2, 12, 48, 62 >>
    /\ log[1].response = << 32 >>
    /\ log[2].response = << 129, 5, 66 >>
    /\ log[3].response = << 32 >>


(* C18: a cycle that reads an escrow frame of at least 3 bytes accepts the *)
(* bill with exactly one Acknowledge, whatever the bill type (also one     *)
(* whose denomination is "Unknown"), and writes no other command after     *)
(* Poll.                                                                   *)
C18_WellFormedEscrow(r) == StrippedFirst(r) = 129 /\ ~ MalformedEscrow(r)

C18_EscrowAlwaysAccepted ==
    C18_WellFormedEscrow(response) =>
       /\ pc \in { "sleep", "check_status" }
             => (outcome = "Escrow" /\ Commands(io) = << 12, 2 >>)
       /\ Commands(io) \in { << 12 >>, << 12, 2 >> }
       /\ outcome \in { "none", "Escrow" }
       /\ outcome = "Escrow" => Commands(io) = << 12, 2 >>

\* a bill type outside the table is accepted
C18_Witness ==
    /\ pc = "sleep"
    /\ response = << 129, 5, 255 >>
    /\ value = "Unknown"
    /\ Commands(io) = << 12, 2 >>

====
